---- MODULE Spec2Model ----
(***************************************************************************)
(* A model of examples/monitor.py: the backlight controller and the page   *)
(* counter run by main_loop, the threshold scan of display_everything and  *)
(* the per-page handlers with the history buffers and the CPU-temperature  *)
(* smoothing window.                                                       *)
(*                                                                         *)
(* Time is counted in tenths of a second (TicksPerSecond), so that the     *)
(* page delay of 0.5 s and the backlight delays of 2, 4 and 3 s are all    *)
(* whole numbers; time.time() is the variable clock.                       *)
(***************************************************************************)
EXTENDS Integers, Sequences, FiniteSets

VARIABLES
    clock,           \* value returned by the latest time.time() call
    now,             \* main_loop: now (line 320)
    lux,             \* main_loop: lux (line 318)
    proximity,       \* main_loop: proximity (line 317)
    screen_on,       \* main_loop: screen_on
    dimmed,          \* main_loop: dimmed
    light_off_time,  \* main_loop: light_off_time (None or a timestamp)
    light_on_time,   \* main_loop: light_on_time (None or a timestamp)
    mode,            \* setup_state: mode
    last_page,       \* setup_state: last_page
    cmds,            \* st7735.set_backlight calls made by the latest iteration
    backlight,       \* level of the latest set_backlight call ("1" before any)
    dark_since,      \* history: now of the first tick of the current run of lux <= 0 ticks
    light_since,     \* history: now of the first tick of the current run of lux > 0 ticks
    checked_at,      \* history: time.time() of line 353 in the latest iteration (None: not called)
    advanced,        \* history: the latest iteration advanced mode
    last_advance,    \* history: clock at the latest advance of mode (startup before any)
    data_value,      \* display_everything: data_value (hundredths of the unit)
    lim,             \* display_everything: lim (hundredths of the unit)
    rgb,             \* display_everything: rgb, the colour the text is drawn in
    scan_pc,         \* "idle", "ready" (before the scan) or "done" (after it)
    values,          \* setup_variables: values, the dict of history buffers
    cpu_temps,       \* setup_state: cpu_temps, the global smoothing window
    pc,              \* "idle", "loop" (in the while loop), "crashed" (an exception left main_loop)
                     \* or "exited" (sys.exit was called)
    exit_status,     \* the argument of sys.exit, None while the process has not exited
    int_at,          \* the stages of its iteration done when KeyboardInterrupt arrived, else None
    exc,             \* the exception that left the latest handler, "none" if it returned
    log,             \* levels of the log records the latest handler wrote
    frames,          \* number of st7735.display calls the latest handler made
    dispatched,      \* the mode whose handler the latest iteration ran (None before any)
    cpu_temp,        \* get_cpu_temperature() of the latest iteration
    reading,         \* the sensor value the latest handler read
    pms_timeout,     \* the PMS5003 answers no read in the latest iteration
    avg_cpu_temp,    \* the average the latest smoothing step computed (NoValue if none)
    temp_runs,       \* history: CPU temperatures of the temperature handler's runs so far
    events,          \* the latest handler's records (the variable's name) and frame pushes ("push"), in order
    hist,            \* display_text: values[variable] after line 128
    shift,           \* a constant added to every sample of hist
    colours,         \* display_text: colours (line 132) computed from hist
    colours_shifted, \* colours computed from hist with shift added to every sample
    norm_pc,         \* "idle", "ready" (before line 130) or "done" (after line 132)
    rnd_page,        \* the page rendered: 0..9 a variable's graph, 10 the grid
    rnd_data,        \* the reading the graph page is rendered with
    rnd_frames,      \* the frames the renders so far pushed, in order
    rnd_excs,        \* the exceptions the renders so far ended with ("none": returned)
    phase            \* the light from now on: "free" (any), "dark" (lux <= 0 on every
                     \* tick to come) or "light" (lux > 0 on every tick to come)

ctlVars == <<clock, now, lux, proximity, screen_on, dimmed, light_off_time,
             light_on_time, mode, last_page, cmds, backlight, dark_since,
             light_since, checked_at, advanced, last_advance>>

clsVars == <<data_value, lim, rgb, scan_pc>>

hdlVars == <<values, cpu_temps, pc, exc, log, frames, dispatched, cpu_temp,
             reading, pms_timeout, avg_cpu_temp, temp_runs, events,
            exit_status, int_at>>

normVars == <<hist, shift, colours, colours_shifted, norm_pc>>

\* the variables only the specifications of single functions use
rndVars == <<rnd_page, rnd_data, rnd_frames, rnd_excs>>

envVars == <<phase>>

restVars == <<normVars, rndVars, envVars>>

vars == <<ctlVars, clsVars, hdlVars, restVars>>

----------------------------------------------------------------------------
(* Bounds and units *)

\* tenths of a second in one second: the unit of clock
TicksPerSecond == 10

\* the model stops the clock here (tenths of a second)
MaxTime == 100

\* the model stops the clock here when it follows the page counter alone
MaxPageTime == 70

\* Python's None for a timestamp that is not set
None == -1

----------------------------------------------------------------------------
(* Program constants *)

dim_delay == 2 * TicksPerSecond
off_delay == 4 * TicksPerSecond
on_delay == 3 * TicksPerSecond
\* delay = 0.5 (seconds)
delay == TicksPerSecond \div 2
ProximityThreshold == 1500

variables == <<"temperature", "pressure", "humidity", "light", "oxidised",
               "reduced", "nh3", "pm1", "pm25", "pm10">>

----------------------------------------------------------------------------
(* BacklightController: main_loop lines 322-349 *)

\* the flags as one record
Flags == [screen_on |-> screen_on, dimmed |-> dimmed,
          light_off_time |-> light_off_time, light_on_time |-> light_on_time]

\* mutant of DimDue: >= for >
DimDue_AtDelay(t, off_time) == t - off_time >= dim_delay

\* mutant of DimDue: the operands of the subtraction swapped
DimDue_Reversed(t, off_time) == off_time - t > dim_delay

\* line 326: elif now - light_off_time > dim_delay
DimDue(t, off_time) == t - off_time > dim_delay

\* mutant of OffDue: off_delay counted alone, not on top of dim_delay
OffDue_NotCumulative(t, off_time) == t - off_time > off_delay

\* line 330: if now - light_off_time > (dim_delay + off_delay)
OffDue(t, off_time) == t - off_time > (dim_delay + off_delay)

\* line 340: elif now - light_on_time > on_delay
OnDue(t, on_time) == t - on_time > on_delay

\* mutant of DarkBranch: line 335 (light_on_time = None) left out
DarkBranch_KeepsLightOnset(f, t) ==
    IF f.screen_on /\ ~f.dimmed
    THEN IF f.light_off_time = None
         THEN [flags |-> [f EXCEPT !.light_off_time = t], cmds |-> <<>>]
         ELSE IF DimDue(t, f.light_off_time)
              THEN [flags |-> [f EXCEPT !.dimmed = TRUE], cmds |-> <<"0.2">>]
              ELSE [flags |-> f, cmds |-> <<>>]
    ELSE IF f.dimmed
         THEN IF OffDue(t, f.light_off_time)
              THEN [flags |-> [f EXCEPT !.screen_on = FALSE, !.dimmed = FALSE,
                                        !.light_off_time = None],
                    cmds |-> <<"0">>]
              ELSE [flags |-> f, cmds |-> <<>>]
         ELSE [flags |-> f, cmds |-> <<>>]

\* lines 323-335: the branch taken when lux <= 0.
\* The result is the flags after the branch and the set_backlight calls made.
DarkBranch(f, t) ==
    LET g ==
        IF f.screen_on /\ ~f.dimmed
        THEN IF f.light_off_time = None
             THEN [flags |-> [f EXCEPT !.light_off_time = t], cmds |-> <<>>]
             ELSE IF DimDue(t, f.light_off_time)
                  THEN [flags |-> [f EXCEPT !.dimmed = TRUE], cmds |-> <<"0.2">>]
                  ELSE [flags |-> f, cmds |-> <<>>]
        ELSE IF f.dimmed
             THEN IF OffDue(t, f.light_off_time)
                  THEN [flags |-> [f EXCEPT !.screen_on = FALSE, !.dimmed = FALSE,
                                            !.light_off_time = None],
                        cmds |-> <<"0">>]
                  ELSE [flags |-> f, cmds |-> <<>>]
             ELSE [flags |-> f, cmds |-> <<>>]
    IN  \* line 335: light_on_time = None
        [flags |-> [g.flags EXCEPT !.light_on_time = None], cmds |-> g.cmds]

\* mutant of LightBranch: recovery from Dimmed waits for on_delay like recovery from Off
LightBranch_DebouncedRestore(f, t) ==
    IF ~f.screen_on \/ f.dimmed
    THEN IF f.light_on_time = None
         THEN [flags |-> [f EXCEPT !.light_on_time = t], cmds |-> <<>>]
         ELSE IF OnDue(t, f.light_on_time)
              THEN [flags |-> [f EXCEPT !.screen_on = TRUE, !.dimmed = FALSE,
                                        !.light_off_time = None, !.light_on_time = None],
                    cmds |-> <<"1">>]
              ELSE [flags |-> f, cmds |-> <<>>]
    ELSE [flags |-> [f EXCEPT !.light_off_time = None], cmds |-> <<>>]

\* mutant of LightBranch: line 345 (set_backlight(1) on recovery from Dimmed) left out
LightBranch_SilentRestore(f, t) ==
    IF ~f.screen_on
    THEN IF f.light_on_time = None
         THEN [flags |-> [f EXCEPT !.light_on_time = t], cmds |-> <<>>]
         ELSE IF OnDue(t, f.light_on_time)
              THEN [flags |-> [f EXCEPT !.screen_on = TRUE, !.light_on_time = None],
                    cmds |-> <<"1">>]
              ELSE [flags |-> f, cmds |-> <<>>]
    ELSE IF f.dimmed
         THEN [flags |-> [f EXCEPT !.dimmed = FALSE, !.light_off_time = None],
               cmds |-> <<>>]
         ELSE [flags |-> [f EXCEPT !.light_off_time = None], cmds |-> <<>>]

\* mutant of LightBranch: line 349 (light_off_time = None while On) left out
LightBranch_KeepsDarkOnset(f, t) ==
    IF ~f.screen_on
    THEN IF f.light_on_time = None
         THEN [flags |-> [f EXCEPT !.light_on_time = t], cmds |-> <<>>]
         ELSE IF OnDue(t, f.light_on_time)
              THEN [flags |-> [f EXCEPT !.screen_on = TRUE, !.light_on_time = None],
                    cmds |-> <<"1">>]
              ELSE [flags |-> f, cmds |-> <<>>]
    ELSE IF f.dimmed
         THEN [flags |-> [f EXCEPT !.dimmed = FALSE, !.light_off_time = None],
               cmds |-> <<"1">>]
         ELSE [flags |-> f, cmds |-> <<>>]

\* mutant of LightBranch: line 343 (light_on_time = None on the return to On) left out
LightBranch_KeepsLightOnset(f, t) ==
    IF ~f.screen_on
    THEN IF f.light_on_time = None
         THEN [flags |-> [f EXCEPT !.light_on_time = t], cmds |-> <<>>]
         ELSE IF OnDue(t, f.light_on_time)
              THEN [flags |-> [f EXCEPT !.screen_on = TRUE], cmds |-> <<"1">>]
              ELSE [flags |-> f, cmds |-> <<>>]
    ELSE IF f.dimmed
         THEN [flags |-> [f EXCEPT !.dimmed = FALSE, !.light_off_time = None],
               cmds |-> <<"1">>]
         ELSE [flags |-> [f EXCEPT !.light_off_time = None], cmds |-> <<>>]

\* lines 337-349: the branch taken when lux > 0
LightBranch(f, t) ==
    IF ~f.screen_on
    THEN IF f.light_on_time = None
         THEN [flags |-> [f EXCEPT !.light_on_time = t], cmds |-> <<>>]
         ELSE IF OnDue(t, f.light_on_time)
              THEN [flags |-> [f EXCEPT !.screen_on = TRUE, !.light_on_time = None],
                    cmds |-> <<"1">>]
              ELSE [flags |-> f, cmds |-> <<>>]
    ELSE IF f.dimmed
         THEN [flags |-> [f EXCEPT !.dimmed = FALSE, !.light_off_time = None],
               cmds |-> <<"1">>]
         ELSE [flags |-> [f EXCEPT !.light_off_time = None], cmds |-> <<>>]

\* lines 322-349
BacklightUpdate(f, lx, t) ==
    IF lx <= 0 THEN DarkBranch(f, t) ELSE LightBranch(f, t)

\* the BacklightState the flags encode
StateOf(so, dm) == IF ~so THEN "Off" ELSE IF dm THEN "Dimmed" ELSE "On"

BacklightState == StateOf(screen_on, dimmed)

----------------------------------------------------------------------------
(* PageController: main_loop lines 352-356 *)

\* mutant of PageDue: >= for >
PageDue_AtDelay(t, lp) == t - lp >= delay

\* line 353: time.time() - last_page > delay
PageDue(t, lp) == t - lp > delay

\* mutant of AdvanceCondition: >= for > in the proximity test
AdvanceCondition_AtThreshold(px, t, lp) == px >= ProximityThreshold /\ PageDue(t, lp)

\* line 353: the whole condition
AdvanceCondition(px, t, lp) == px > ProximityThreshold /\ PageDue(t, lp)

\* lines 354-355: mode += 1; mode %= (len(variables) + 1)
NextMode(m) == (m + 1) % (Len(variables) + 1)

----------------------------------------------------------------------------
(* ThresholdClassifier: the scan of display_everything, lines 173-177.     *)
(* Values and limits are in hundredths of the variable's unit, so that the *)
(* limit 1013.25 is a whole number.                                        *)

\* lines 86-97, in hundredths
limits == <<
    <<400, 1800, 2800, 3500>>,
    <<25000, 65000, 101325, 101500>>,
    <<2000, 3000, 6000, 7000>>,
    <<-100, -100, 3000000, 10000000>>,
    <<-100, -100, 4000, 5000>>,
    <<-100, -100, 45000, 55000>>,
    <<-100, -100, 20000, 30000>>,
    <<-100, -100, 5000, 10000>>,
    <<-100, -100, 5000, 10000>>,
    <<-100, -100, 5000, 10000>> >>

\* lines 99-105
palette == << <<0, 0, 255>>, <<0, 255, 255>>, <<0, 255, 0>>, <<255, 255, 0>>,
              <<255, 0, 0>> >>

\* mutant of Exceeds: >= for >
Exceeds_OrEqual(v, t) == v >= t

\* line 176: if data_value > lim[j]
Exceeds(v, t) == v > t

\* lines 175-177, from index j on (j counts from 1 here, from 0 in the code):
\* every limit the value exceeds overwrites the colour chosen so far
RECURSIVE ScanFrom(_, _, _, _)
ScanFrom(v, lm, j, colour) ==
    IF j > Len(lm) THEN colour
    ELSE ScanFrom(v, lm, j + 1, IF Exceeds(v, lm[j]) THEN palette[j + 1] ELSE colour)

\* lines 174-177: rgb = palette[0], then the scan
Classify(v, lm) == ScanFrom(v, lm, 1, palette[1])

\* no scan in progress
ClsIdle == data_value = 0 /\ lim = <<>> /\ rgb = <<>> /\ scan_pc = "idle"

\* largest limit of the generated threshold lists
MaxLimit == 3

\* the threshold lists scanned: the configured ones and every non-decreasing
\* list of four limits between the sentinel -1 and MaxLimit
LimitLists ==
    {limits[i] : i \in 1..Len(limits)} \cup
    {l \in [1..4 -> -1..MaxLimit] : \A i \in 1..3 : l[i] <= l[i + 1]}

\* the values scanned against a list: each limit, just below and just above
\* it, and the spec's examples 2, 20 and 40 for the temperature limits
ValuesFor(lm) ==
    UNION {{lm[i] - 1, lm[i], lm[i] + 1} : i \in 1..Len(lm)} \cup
    (IF lm = limits[1] THEN {200, 2000, 4000} ELSE {})

\* lines 168 and 173: a value and the limit list of its variable
ClsInit ==
    /\ lim \in LimitLists
    /\ data_value \in ValuesFor(lim)
    /\ rgb = <<>>
    /\ scan_pc = "ready"

\* lines 174-177
Scan ==
    /\ scan_pc = "ready"
    /\ rgb' = Classify(data_value, lim)
    /\ scan_pc' = "done"
    /\ UNCHANGED <<data_value, lim>>

----------------------------------------------------------------------------
(* Normalization: display_text lines 130-132.  A normalized value is the    *)
(* fraction [num, den] the division of line 132 is given.                    *)

\* line 130: min(values[variable])
RECURSIVE Min(_)
Min(w) == IF Len(w) = 1 THEN w[1]
          ELSE LET m == Min(Tail(w)) IN IF w[1] <= m THEN w[1] ELSE m

\* line 131: max(values[variable])
RECURSIVE Max(_)
Max(w) == IF Len(w) = 1 THEN w[1]
          ELSE LET m == Max(Tail(w)) IN IF w[1] >= m THEN w[1] ELSE m

\* mutant of Scale: the + 1 of the divisor left out
Scale_NoOffset(v, vmin, vmax) == [num |-> v - vmin + 1, den |-> vmax - vmin]

\* line 132: (v - vmin + 1) / (vmax - vmin + 1)
Scale(v, vmin, vmax) == [num |-> v - vmin + 1, den |-> vmax - vmin + 1]

\* lines 130-132
Normalize(w) == [i \in 1..Len(w) |-> Scale(w[i], Min(w), Max(w))]

\* longest buffer and largest sample size of the generated buffers
MaxHist == 3
MaxSample == 2

\* the buffers normalized: every buffer of 1..MaxHist samples in
\* -MaxSample..MaxSample, and the spec's example
Buffers ==
    UNION {[1..n -> (0 - MaxSample)..MaxSample] : n \in 1..MaxHist}
    \cup {<<10, 10, 10, 10, 10>>}

\* the readings a page is rendered with
RenderReadings == {0, 1, 7, 20}

\* the constants added to every sample
Shifts == {-7, 1, 100}

NormIdle ==
    /\ hist = <<>>
    /\ shift = 0
    /\ colours = <<>>
    /\ colours_shifted = <<>>
    /\ norm_pc = "idle"

\* a buffer as line 128 leaves it
NormInit ==
    /\ hist \in Buffers
    /\ shift \in Shifts
    /\ colours = <<>>
    /\ colours_shifted = <<>>
    /\ norm_pc = "ready"

\* lines 130-132, on the buffer and on the buffer with shift added
NormalizeStep ==
    /\ norm_pc = "ready"
    /\ colours' = Normalize(hist)
    /\ colours_shifted' = Normalize([i \in 1..Len(hist) |-> hist[i] + shift])
    /\ norm_pc' = "done"
    /\ UNCHANGED <<hist, shift>>

RndIdle ==
    /\ rnd_page = None
    /\ rnd_data = 0
    /\ rnd_frames = <<>>
    /\ rnd_excs = <<>>

\* the single-function variables at rest
\* no promise about the light to come
EnvIdle == phase = "free"

RestIdle == NormIdle /\ RndIdle /\ EnvIdle

----------------------------------------------------------------------------
(* The handlers, lines 126-298.  A handler is a function from the state it   *)
(* finds (the record h) to the state it leaves; h.exc names the exception    *)
(* that is propagating, and a step is skipped while one is.  Sensor values   *)
(* are fractions [num, den], since the code divides them.                    *)

Frac(n, d) == [num |-> n, den |-> d]

\* no value computed
NoValue == Frac(0, 0)

\* no frame pushed
NoFrame == [kind |-> "none"]

\* sum(cpu_temps)
RECURSIVE Sum(_)
Sum(w) == IF w = <<>> THEN 0 ELSE Head(w) + Sum(Tail(w))

\* the state a handler works on
HandlerState ==
    [values |-> values, cpu_temps |-> cpu_temps, exc |-> "none", log |-> <<>>,
     frames |-> 0, avg |-> NoValue, data |-> NoValue, frame |-> NoFrame,
     events |-> <<>>]

Ok(h) == h.exc = "none"

Raise(h, e) == IF Ok(h) THEN [h EXCEPT !.exc = e] ELSE h

\* The names handle_temperature_mode (lines 188-196) and
\* handle_display_everything_mode (lines 264-298) assign and do not declare
\* global: Python makes them local to the call.
LocalsOfTemperatureHandler ==
    {"unit", "cpu_temp", "cpu_temps", "avg_cpu_temp", "raw_temp", "data"}
LocalsOfEverythingHandler ==
    {"cpu_temp", "cpu_temps", "avg_cpu_temp", "raw_temp", "raw_data", "gas_data",
     "pms_data"}

\* lines 192-193 and 267-268: cpu_temps = cpu_temps[1:] + [cpu_temp], then the
\* average.  Where cpu_temps is a local name the right-hand side reads it
\* before it is bound, which raises UnboundLocalError; where it is global the
\* window drops its oldest sample and takes the new one.
Smooth(h, locals, k) ==
    IF ~Ok(h) THEN h
    ELSE IF "cpu_temps" \in locals
         THEN Raise(h, "UnboundLocalError")
         ELSE LET w == Tail(h.cpu_temps) \o <<k>>
              IN  [h EXCEPT !.cpu_temps = w, !.avg = Frac(Sum(w), Len(w))]

\* lines 195 and 270: raw_temp - ((avg_cpu_temp - raw_temp) / factor), factor = 2.25 = 9/4
Compensate(h, raw) ==
    IF ~Ok(h) THEN h
    ELSE [h EXCEPT !.data = Frac(13 * raw * h.avg.den - 4 * h.avg.num, 9 * h.avg.den)]

\* lines 128 and 155: values[variable] = values[variable][1:] + [data];
\* a variable that is no key of values raises KeyError
Record(h, variable, data) ==
    IF ~Ok(h) THEN h
    ELSE IF variable \notin DOMAIN h.values
         THEN Raise(h, "KeyError")
         ELSE [h EXCEPT !.values[variable] = Tail(@) \o <<data>>,
                        !.events = Append(@, variable)]

\* lines 126-148: record, log the message, draw and push the frame.  The
\* frame is drawn from the variable, the value and the buffer after line 128.
display_text(h, variable, data) ==
    LET r == Record(h, variable, data)
    IN  IF ~Ok(r) THEN r
        ELSE [r EXCEPT !.log = Append(@, "INFO"), !.frames = @ + 1,
                       !.events = Append(@, "push"),
                       !.frame = [kind |-> "graph", variable |-> variable,
                                  data |-> data, series |-> r.values[variable]]]

\* lines 152-158: record and log the message
save_data(h, idx, data) ==
    LET r == Record(h, variables[idx + 1], data)
    IN  IF ~Ok(r) THEN r ELSE [r EXCEPT !.log = Append(@, "INFO")]

\* lines 162-179: reads values[variable][-1] of every variable, pushes the
\* frame drawn from these values
display_everything(h) ==
    IF ~Ok(h) THEN h
    ELSE IF \E i \in 1..Len(variables) : variables[i] \notin DOMAIN h.values
         THEN Raise(h, "KeyError")
         ELSE [h EXCEPT !.frames = @ + 1,
                        !.events = Append(@, "push"),
                        !.frame = [kind |-> "grid",
                                   latest |-> [i \in 1..Len(variables) |->
                                       h.values[variables[i]][Len(h.values[variables[i]])]]]]

\* lines 188-196
handle_temperature_mode(h, k, raw) ==
    LET s1 == Compensate(Smooth(h, LocalsOfTemperatureHandler, k), raw)
    IN  display_text(s1, variables[1], s1.data)

\* lines 198-206: pressure (idx 1) and humidity (idx 2)
handle_bme_mode(h, idx, rd) == display_text(h, variables[idx + 1], Frac(rd, 1))

\* lines 208-214
handle_light_mode(h, px, rd) ==
    display_text(h, variables[4], IF px < 10 THEN Frac(rd, 1) ELSE Frac(1, 1))

\* lines 216-232: oxidised (idx 4), reduced (idx 5), nh3 (idx 6)
handle_gas_mode(h, idx, rd) == display_text(h, variables[idx + 1], Frac(rd, 1000))

\* lines 234-262: pm1 (idx 7), pm25 (idx 8), pm10 (idx 9)
handle_pm_mode(h, idx, rd, timeout) ==
    IF timeout
    THEN [h EXCEPT !.log = Append(@, "WARNING")]
    ELSE display_text(h, variables[idx + 1], Frac(rd, 1))

\* lines 289-298 of handle_display_everything_mode
EverythingParticulates(h, rd, timeout) ==
    IF ~Ok(h) THEN h
    ELSE IF timeout
         THEN [h EXCEPT !.log = Append(@, "WARNING")]
         ELSE display_everything(
                  save_data(save_data(save_data(h, 7, Frac(rd, 1)), 8, Frac(rd, 1)),
                            9, Frac(rd, 1)))

\* lines 264-298
handle_display_everything_mode(h, px, k, rd, timeout) ==
    LET s1 == Compensate(Smooth(h, LocalsOfEverythingHandler, k), rd)
        s2 == display_everything(save_data(s1, 0, s1.data))
        s3 == display_everything(save_data(s2, 1, Frac(rd, 1)))
        s4 == save_data(s3, 2, Frac(rd, 1))
        s5 == display_everything(
                  save_data(s4, 3, IF px < 10 THEN Frac(rd, 1) ELSE Frac(1, 1)))
        s6 == display_everything(
                  save_data(save_data(save_data(s5, 4, Frac(rd, 1000)),
                                      5, Frac(rd, 1000)), 6, Frac(rd, 1000)))
    IN  EverythingParticulates(s6, rd, timeout)

\* lines 359-382: match mode
Dispatch(m, h, px, k, rd, timeout) ==
    CASE m = 10 -> handle_display_everything_mode(h, px, k, rd, timeout)
      [] m = 0 -> handle_temperature_mode(h, k, rd)
      [] m \in {1, 2} -> handle_bme_mode(h, m, rd)
      [] m = 3 -> handle_light_mode(h, px, rd)
      [] m \in {4, 5, 6} -> handle_gas_mode(h, m, rd)
      [] m \in {7, 8, 9} -> handle_pm_mode(h, m, rd, timeout)

\* no handler has run
HdlIdle ==
    /\ values = <<>>
    /\ cpu_temps = <<>>
    /\ pc = "idle"
    /\ exc = "none"
    /\ log = <<>>
    /\ frames = 0
    /\ dispatched = None
    /\ cpu_temp = 0
    /\ reading = 0
    /\ pms_timeout = FALSE
    /\ avg_cpu_temp = NoValue
    /\ temp_runs = <<>>
    /\ events = <<>>
    /\ exit_status = None
    /\ int_at = None

\* setup_variables (line 106: values = {}) and setup_state (line 115)
HdlInit ==
    /\ values = <<>>
    /\ cpu_temps = <<0, 0, 0, 0, 0>>
    /\ pc = "loop"
    /\ exc = "none"
    /\ log = <<>>
    /\ frames = 0
    /\ dispatched = None
    /\ cpu_temp = 0
    /\ reading = 0
    /\ pms_timeout = FALSE
    /\ avg_cpu_temp = NoValue
    /\ temp_runs = <<>>
    /\ events = <<>>
    /\ exit_status = None
    /\ int_at = None

----------------------------------------------------------------------------
(* One pass of main_loop over lines 317-356: the two sensor reads, the      *)
(* backlight update and the page-advance check.  d0 is the time that passed *)
(* since the latest time.time() call up to line 320, d1 the time up to the  *)
(* call of line 353 and d2 the time up to the call of line 356.             *)

ControllerTick(lx, px, d0, d1, d2) ==
    LET t  == clock + d0
        t1 == t + d1
        t2 == t1 + d2
        r  == BacklightUpdate(Flags, lx, t)
        adv == AdvanceCondition(px, t1, last_page)
    IN  /\ proximity' = px
        /\ lux' = lx
        /\ now' = t
        /\ screen_on' = r.flags.screen_on
        /\ dimmed' = r.flags.dimmed
        /\ light_off_time' = r.flags.light_off_time
        /\ light_on_time' = r.flags.light_on_time
        /\ cmds' = r.cmds
        /\ backlight' = IF r.cmds = <<>> THEN backlight ELSE r.cmds[Len(r.cmds)]
        /\ dark_since' = IF lx <= 0
                         THEN (IF dark_since = None THEN t ELSE dark_since)
                         ELSE None
        /\ light_since' = IF lx > 0
                          THEN (IF light_since = None THEN t ELSE light_since)
                          ELSE None
        /\ mode' = IF adv THEN NextMode(mode) ELSE mode
        /\ last_page' = IF adv THEN t2 ELSE last_page
        /\ advanced' = adv
        /\ checked_at' = IF px > ProximityThreshold THEN t1 ELSE None
        /\ last_advance' = IF adv THEN t2 ELSE last_advance
        \* time.time() of line 353 is only called when proximity > 1500
        /\ clock' = IF adv THEN t2
                    ELSE IF px > ProximityThreshold THEN t1 ELSE t

\* setup_state (lines 108-116) and the head of main_loop (lines 306-312)
CtlInitAt(m) ==
    /\ clock = 0
    /\ now = 0
    /\ lux = 1
    /\ proximity = 0
    /\ screen_on = TRUE
    /\ dimmed = FALSE
    /\ light_off_time = None
    /\ light_on_time = None
    /\ mode = m
    /\ last_page = 0
    /\ cmds = <<>>
    /\ backlight = "1"
    /\ dark_since = None
    /\ light_since = None
    /\ advanced = FALSE
    /\ checked_at = None
    /\ last_advance = 0

CtlInit == CtlInitAt(0)

\* the scan of display_everything applied to one value and one limit list
ClassifyInit == CtlInit /\ ClsInit /\ HdlIdle /\ RestIdle

ClassifyNext == Scan /\ UNCHANGED <<ctlVars, hdlVars, restVars>>

SpecClassify == ClassifyInit /\ [][ClassifyNext]_vars

\* lines 130-132 applied to one buffer
NormalizeInit == CtlInit /\ ClsIdle /\ HdlIdle /\ NormInit /\ RndIdle /\ EnvIdle

NormalizeNext ==
    NormalizeStep /\ UNCHANGED <<ctlVars, clsVars, hdlVars, rndVars, envVars>>

SpecNormalize == NormalizeInit /\ [][NormalizeNext]_vars

\* One render of a page: display_text (lines 126-148) for a variable's graph,
\* display_everything (lines 162-179) for the grid.
RenderPage(h, p, d) ==
    IF p = 10 THEN display_everything(h)
    ELSE display_text(h, variables[p + 1], Frac(d, 1))

\* a page rendered twice in a row with the same reading, from the state
\* setup() leaves
RenderInit ==
    /\ CtlInit /\ ClsIdle /\ HdlInit /\ NormIdle /\ EnvIdle
    /\ rnd_page \in 0..10
    /\ rnd_data \in RenderReadings
    /\ rnd_frames = <<>>
    /\ rnd_excs = <<>>

RenderNext ==
    /\ Len(rnd_excs) < 2
    /\ LET h == RenderPage(HandlerState, rnd_page, rnd_data)
       IN  /\ values' = h.values
           /\ rnd_frames' = IF h.frames > 0 THEN Append(rnd_frames, h.frame)
                            ELSE rnd_frames
           /\ rnd_excs' = Append(rnd_excs, h.exc)
    /\ UNCHANGED <<ctlVars, clsVars, normVars, envVars, rnd_page, rnd_data, cpu_temps, pc, exc,
                   log, frames, dispatched, cpu_temp, reading, pms_timeout,
                   avg_cpu_temp, temp_runs, events, exit_status, int_at>>

SpecRender == RenderInit /\ [][RenderNext]_vars

\* readings of the light sensor and gaps between iterations (tenths of a second)
LuxValues == {0, 1}
TickGaps == {0, 1, 5, 10, 20}

\* The backlight controller under every sequence of lux readings, nothing
\* near the proximity sensor.  SpecBacklight and SpecPage follow lines 317-356
\* of every iteration; the handler the iteration then runs (Iterate, below)
\* reads and writes none of the controllers' variables.
BacklightNext ==
    \E lx \in LuxValues, d0 \in TickGaps :
        /\ clock + d0 <= MaxTime
        /\ ControllerTick(lx, 0, d0, 0, 0)
        /\ UNCHANGED <<clsVars, hdlVars, restVars>>

\* setup, with only the controllers followed
ControllersInit == CtlInit /\ ClsIdle /\ HdlIdle /\ RestIdle

SpecBacklight == ControllersInit /\ [][BacklightNext]_vars

(* The controller followed under a promise about the light.  Ticks keep     *)
(* coming: the while loop of line 315 has no exit but an exception, and     *)
(* every tick takes time (weak fairness of the tick).  From some tick on    *)
(* the light may stay dark, or stay lit, for good; the promise is made no   *)
(* later than FreeUntil, which leaves time for the delays before the model  *)
(* stops the clock at MaxLiveTime.                                          *)
MaxLiveTime == 180

LiveGaps == {5, 25}

MaxGap == 25

FreeUntil == MaxLiveTime - (dim_delay + off_delay) - 2 * MaxGap

\* the lux values a tick can read under the promise p
LuxUnder(p) == IF p = "dark" THEN {0} ELSE IF p = "light" THEN {1} ELSE LuxValues

\* the promises that can follow p at a tick read at the clock value c
PhasesAfter(p, c) ==
    IF p = "free" /\ c <= FreeUntil THEN {"free", "dark", "light"} ELSE {p}

LiveNext ==
    \E d0 \in LiveGaps, p \in PhasesAfter(phase, clock) :
        \E lx \in LuxUnder(p) :
            /\ clock + d0 <= MaxLiveTime
            /\ ControllerTick(lx, 0, d0, 0, 0)
            /\ phase' = p
            /\ UNCHANGED <<clsVars, hdlVars, normVars, rndVars>>

SpecBacklightLive == ControllersInit /\ [][LiveNext]_vars /\ WF_vars(LiveNext)

\* readings of the proximity sensor, gaps between iterations and between the
\* time.time() calls of one iteration (tenths of a second)
ProxValues == {1500, 2000}
PageGaps == {1, 4}
ReadGaps == {0, 1}

\* The page counter under every sequence of proximity readings, in daylight.
PageNext ==
    \E px \in ProxValues, d0 \in PageGaps, d1 \in ReadGaps, d2 \in ReadGaps :
        /\ clock + d0 + d1 + d2 <= MaxPageTime
        /\ ControllerTick(1, px, d0, d1, d2)
        /\ UNCHANGED <<clsVars, hdlVars, restVars>>

SpecPage == ControllersInit /\ [][PageNext]_vars

\* mutant of Iterate: the handler of the page shown before this iteration's
\* advance check is dispatched
Iterate_DispatchOld(lx, px, d0, d1, d2, k, rd, timeout) ==
    /\ pc = "loop"
    /\ ControllerTick(lx, px, d0, d1, d2)
    /\ LET h == Dispatch(mode, HandlerState, px, k, rd, timeout)
       IN  /\ values' = h.values
           /\ cpu_temps' = h.cpu_temps
           /\ exc' = h.exc
           /\ log' = h.log
           /\ frames' = h.frames
           /\ events' = h.events
           /\ avg_cpu_temp' = h.avg
           /\ pc' = IF Ok(h) THEN "loop" ELSE "crashed"
    /\ dispatched' = mode
    /\ cpu_temp' = k
    /\ reading' = rd
    /\ pms_timeout' = timeout
    /\ temp_runs' = IF mode = 0 THEN Append(temp_runs, k) ELSE temp_runs
    /\ UNCHANGED <<clsVars, restVars, exit_status, int_at>>


\* One iteration of the while loop, lines 315-382: the controllers, then the
\* handler of the mode the advance check left.  An exception that leaves the
\* handler is no KeyboardInterrupt, so it leaves main_loop too (line 385).
Iterate(lx, px, d0, d1, d2, k, rd, timeout) ==
    /\ pc = "loop"
    /\ ControllerTick(lx, px, d0, d1, d2)
    /\ LET h == Dispatch(mode', HandlerState, px, k, rd, timeout)
       IN  /\ values' = h.values
           /\ cpu_temps' = h.cpu_temps
           /\ exc' = h.exc
           /\ log' = h.log
           /\ frames' = h.frames
           /\ events' = h.events
           /\ avg_cpu_temp' = h.avg
           /\ pc' = IF Ok(h) THEN "loop" ELSE "crashed"
    /\ dispatched' = mode'
    /\ cpu_temp' = k
    /\ reading' = rd
    /\ pms_timeout' = timeout
    /\ temp_runs' = IF mode' = 0 THEN Append(temp_runs, k) ELSE temp_runs
    /\ UNCHANGED <<clsVars, restVars, exit_status, int_at>>

(* KeyboardInterrupt is raised where the interpreter is when the signal      *)
(* arrives, that is between any two statements of the try block of lines     *)
(* 314-382; the except clause of lines 385-386 then calls sys.exit(0).  The  *)
(* stages of an iteration: 1 the reads and now (lines 317-320), 2 the        *)
(* backlight update (lines 322-349), 3 the page-advance check (lines         *)
(* 353-356); the handler dispatch (lines 359-382) follows.  cut is the       *)
(* number of stages done when the interrupt arrives: 0 is the head of the    *)
(* loop, between two iterations; 3 is also an interrupt inside the handler   *)
(* before its first assignment (its sensor read).                            *)
Cuts == 0..3

\* the interrupt held back until the iteration's stages are done
Completed_Deferred(cut, stage) == TRUE

\* the stage was done before the interrupt arrived
Completed(cut, stage) == cut >= stage

\* lines 385-386: except KeyboardInterrupt: sys.exit(0)
OnKeyboardInterrupt == 0

Interrupted(lx, px, d0, d1, d2, cut) ==
    LET t  == clock + d0
        t1 == t + d1
        t2 == t1 + d2
        r  == BacklightUpdate(Flags, lx, t)
        adv == AdvanceCondition(px, t1, last_page)
        s1 == Completed(cut, 1)
        s2 == Completed(cut, 2)
        s3 == Completed(cut, 3)
    IN  /\ pc = "loop"
        /\ proximity' = IF s1 THEN px ELSE proximity
        /\ lux' = IF s1 THEN lx ELSE lux
        /\ now' = IF s1 THEN t ELSE now
        /\ screen_on' = IF s2 THEN r.flags.screen_on ELSE screen_on
        /\ dimmed' = IF s2 THEN r.flags.dimmed ELSE dimmed
        /\ light_off_time' = IF s2 THEN r.flags.light_off_time ELSE light_off_time
        /\ light_on_time' = IF s2 THEN r.flags.light_on_time ELSE light_on_time
        /\ cmds' = IF s2 THEN r.cmds ELSE <<>>
        /\ backlight' = IF s2 /\ r.cmds # <<>> THEN r.cmds[Len(r.cmds)] ELSE backlight
        /\ dark_since' = IF ~s2 THEN dark_since
                         ELSE IF lx <= 0
                         THEN (IF dark_since = None THEN t ELSE dark_since)
                         ELSE None
        /\ light_since' = IF ~s2 THEN light_since
                          ELSE IF lx > 0
                          THEN (IF light_since = None THEN t ELSE light_since)
                          ELSE None
        /\ mode' = IF s3 /\ adv THEN NextMode(mode) ELSE mode
        /\ last_page' = IF s3 /\ adv THEN t2 ELSE last_page
        /\ advanced' = (s3 /\ adv)
        /\ checked_at' = IF s3 /\ px > ProximityThreshold THEN t1 ELSE None
        /\ last_advance' = IF s3 /\ adv THEN t2 ELSE last_advance
        /\ clock' = IF s3 /\ adv THEN t2
                    ELSE IF s3 /\ px > ProximityThreshold THEN t1 ELSE t
        /\ pc' = "exited"
        /\ exit_status' = OnKeyboardInterrupt
        /\ int_at' = cut
        /\ UNCHANGED <<clsVars, restVars, values, cpu_temps, exc, log, frames,
                       dispatched, cpu_temp, reading, pms_timeout, avg_cpu_temp,
                       temp_runs, events>>

\* the model stops the clock of the whole loop here (tenths of a second)
MaxLoopTime == 8

\* CPU temperatures and sensor values read, gaps between iterations
CpuTemps == {40, 45, 50}
Readings == {0, 7, 20}
LoopGaps == {1, 6}

LoopNext ==
    \E lx \in LuxValues, px \in {0, 2000}, d0 \in LoopGaps :
        /\ clock + d0 <= MaxLoopTime
        /\ \/ \E k \in CpuTemps, rd \in Readings, timeout \in BOOLEAN :
                 Iterate(lx, px, d0, 0, 0, k, rd, timeout)
           \/ \E cut \in Cuts : Interrupted(lx, px, d0, 0, 0, cut)

\* the program: setup(), then main_loop()
Init == CtlInit /\ ClsIdle /\ HdlInit /\ RestIdle

Spec == Init /\ [][LoopNext]_vars

\* The loop entered on any page: the state setup() leaves, except that mode is
\* any of the 11 pages, to run the handler of each.
DispatchInit == (\E m \in 0..10 : CtlInitAt(m)) /\ ClsIdle /\ HdlInit /\ RestIdle

SpecDispatch == DispatchInit /\ [][LoopNext]_vars

(* The loop followed long enough for the backlight to go through Dimmed to  *)
(* Off: entered on any page as in SpecDispatch, with one CPU temperature,   *)
(* one sensor value and gaps of 0.5 s and 3 s between iterations.  Only the *)
(* particulate handlers in a tick with a read timeout return (C13), so the  *)
(* long behaviours are those of pages 7 to 9.                               *)
MaxLongTime == 100

LongGaps == {5, 30}

LongLoopNext ==
    \E lx \in LuxValues, px \in {0, 2000}, d0 \in LongGaps :
        /\ clock + d0 <= MaxLongTime
        /\ \/ \E timeout \in BOOLEAN : Iterate(lx, px, d0, 0, 0, 45, 7, timeout)
           \/ \E cut \in Cuts : Interrupted(lx, px, d0, 0, 0, cut)

SpecLongLoop == DispatchInit /\ [][LongLoopNext]_vars

----------------------------------------------------------------------------
(* Backlight claims, checked under SpecBacklight *)

\* the level set_backlight is called with on entering a state
LevelOf(st) == IF st = "Dimmed" THEN "0.2" ELSE IF st = "Off" THEN "0" ELSE "1"

\* C1: from On, a tick enters Dimmed if and only if it is dark (lux <= 0), the
\* dark-onset timestamp was recorded at an earlier tick of the same
\* uninterrupted dark episode, and now - dark_onset > dim_delay; Dimmed is
\* entered from On only, so never on the first dark tick nor while the
\* darkness has lasted dim_delay or less.
C1_DimDebounce ==
    [][ /\ BacklightState = "On" =>
            /\ (light_off_time /= None => light_off_time = dark_since)
            /\ (BacklightState' = "Dimmed") <=>
                   (/\ lux' <= 0
                    /\ dark_since /= None
                    /\ light_off_time = dark_since
                    /\ now' - dark_since > dim_delay)
        /\ (BacklightState' = "Dimmed" /\ BacklightState /= "Dimmed") =>
               BacklightState = "On"
        /\ BacklightState' = "Dimmed" =>
               (dark_since' /= None /\ now' - dark_since' > dim_delay)
      ]_vars

\* C1 witness: the spec's example, dark ticks at 0 s, 1 s, 3 s after the onset:
\* Dimmed has just been entered 3 s after the dark onset.
C1_Witness ==
    /\ BacklightState = "Dimmed"
    /\ cmds = <<"0.2">>
    /\ now - dark_since = 3 * TicksPerSecond
    /\ light_off_time = dark_since

\* C2: Off is entered only from Dimmed, at a dark tick with
\* now - dark_onset > dim_delay + off_delay, dark_onset being the timestamp
\* taken at the first dark tick in On (entering Dimmed does not change it);
\* entering Off clears the timestamp.
C2_PowerOff ==
    [][ /\ (BacklightState' = "Off" /\ BacklightState /= "Off") =>
            /\ BacklightState = "Dimmed"
            /\ lux' <= 0
            /\ light_off_time = dark_since
            /\ now' - light_off_time > dim_delay + off_delay
            /\ light_off_time' = None
        /\ BacklightState = "Dimmed" =>
            ((BacklightState' = "Off") <=>
                (lux' <= 0 /\ now' - light_off_time > dim_delay + off_delay))
        /\ (BacklightState = "On" /\ BacklightState' = "Dimmed") =>
            (light_off_time' = light_off_time /\ light_off_time' = dark_since')
        /\ (BacklightState = "Dimmed" /\ BacklightState' = "Dimmed") =>
            light_off_time' = light_off_time
      ]_vars

\* C2 witness: Off has just been entered, as early as it can be (6.1 s of dark).
C2_Witness ==
    /\ BacklightState = "Off"
    /\ cmds = <<"0">>
    /\ now - dark_since = dim_delay + off_delay + 1
    /\ light_off_time = None

\* C3: from Off, a tick enters On if and only if it is a light tick with a
\* light-onset timestamp recorded at an earlier light tick and
\* now - light_onset > on_delay; the first light tick only records the
\* timestamp; a dark tick in Off discards it, so the timestamp is the start
\* of the current uninterrupted run of light ticks.
C3_ReEnable ==
    [][ BacklightState = "Off" =>
            /\ (light_on_time /= None => light_on_time = light_since)
            /\ (BacklightState' = "On") <=>
                   (/\ lux' > 0
                    /\ light_on_time /= None
                    /\ now' - light_on_time > on_delay)
            /\ BacklightState' = "On" => now' - light_since > on_delay
            /\ (lux' > 0 /\ light_on_time = None) =>
                   (/\ BacklightState' = "Off"
                    /\ light_on_time' = now'
                    /\ cmds' = <<>>)
            /\ lux' <= 0 => (light_on_time' = None /\ BacklightState' = "Off")
            /\ BacklightState' /= "Dimmed"
      ]_vars

\* C3 witness: On has just been re-entered from Off after 3.1 s of light.
C3_Witness ==
    /\ BacklightState = "On"
    /\ cmds = <<"1">>
    /\ light_since /= None
    /\ now - light_since = on_delay + 1
    /\ light_on_time = None

\* C4: a light tick in Dimmed always ends in On at full backlight, whatever
\* time has passed, with the dark-onset timestamp cleared.
C4_ImmediateRestore ==
    [][ (BacklightState = "Dimmed" /\ lux' > 0) =>
            /\ BacklightState' = "On"
            /\ cmds' = <<"1">>
            /\ backlight' = "1"
            /\ light_off_time' = None
      ]_vars

\* C4 witness: On has just been restored from Dimmed at the first light tick.
C4_Witness ==
    /\ BacklightState = "On"
    /\ cmds = <<"1">>
    /\ lux > 0
    /\ light_since = now
    /\ light_off_time = None

\* C5: a tick calls set_backlight exactly once when it changes the
\* BacklightState and not at all otherwise, with the level of the state
\* entered; so the latest commanded level is the level of the current state.
C5_BacklightCommands ==
    [][ /\ Len(cmds') = (IF BacklightState' /= BacklightState THEN 1 ELSE 0)
        /\ (BacklightState' /= BacklightState) => cmds'[1] = LevelOf(BacklightState')
        /\ backlight = LevelOf(BacklightState)
        /\ backlight' = LevelOf(BacklightState')
      ]_vars

\* C5 witness: a tick that changed the state to Off and commanded level 0,
\* after Dimmed (0.2) had been commanded by an earlier tick.
C5_Witness ==
    /\ BacklightState = "Off"
    /\ cmds = <<"0">>
    /\ backlight = "0"

----------------------------------------------------------------------------
(* Page claims, checked under SpecPage *)

\* C6: two consecutive advances of mode are more than delay apart, the first
\* advance comes more than delay after startup, and with ticks 0.5 s or less
\* apart (such as 0.1 s) no two consecutive ticks both advance.
C6_PageDebounce ==
    [][ /\ advanced' <=> (mode' /= mode)
        /\ advanced' => (/\ checked_at' - last_advance > delay
                         /\ clock' - last_advance > delay
                         /\ last_advance' = clock')
        /\ (advanced /\ clock' - clock <= delay) => mode' = mode
      ]_vars

\* C6 witness: proximity held at 2000 over ticks 0.1 s apart: the second
\* advance, made 0.6 s after the first, which was made 0.6 s after startup.
C6_Witness ==
    /\ advanced
    /\ proximity = 2000
    /\ mode = 2
    /\ clock = 2 * (delay + 1)
    /\ last_advance = clock

\* C7 as claimed: a tick with proximity > 1500 and at least delay elapsed
\* since the last advance advances mode.
C7_AsClaimed ==
    [][ (proximity' > ProximityThreshold /\ checked_at' - last_advance >= delay) =>
            mode' = (mode + 1) % 11
      ]_vars

\* C7 amended: a tick with proximity > 1500 and more than delay elapsed since
\* the last advance (startup before any) takes mode to (mode + 1) mod 11;
\* every other tick leaves mode unchanged; mode stays in 0..10.
C7_PageCounter ==
    [][ /\ (proximity' > ProximityThreshold /\ checked_at' - last_advance > delay) =>
               mode' = (mode + 1) % 11
        /\ ~(proximity' > ProximityThreshold /\ checked_at' - last_advance > delay) =>
               mode' = mode
        /\ mode \in 0..10 /\ mode' \in 0..10
        /\ last_page = last_advance
      ]_vars

\* C7 witness: mode has just wrapped from 10 to 0.
C7_Witness ==
    /\ advanced
    /\ mode = 0
    /\ proximity > ProximityThreshold

----------------------------------------------------------------------------
(* Classifier claim, checked under SpecClassify *)

\* the number of limits the value exceeds
ExceededCount(v, lm) == Cardinality({i \in 1..Len(lm) : v > lm[i]})

\* C8: for a non-decreasing list of four limits, the colour the scan ends
\* with is the palette entry whose index is the number of limits the value
\* exceeds, an index in 0..4.
C8_ThresholdCount ==
    scan_pc = "done" =>
        /\ ExceededCount(data_value, lim) \in 0..4
        /\ rgb = palette[ExceededCount(data_value, lim) + 1]

\* C8 witness: temperature limits [4, 18, 28, 35] and the value 20: index 2.
C8_Witness ==
    /\ scan_pc = "done"
    /\ lim = limits[1]
    /\ data_value = 2000
    /\ rgb = palette[3]

----------------------------------------------------------------------------
(* Handler claims *)

\* the handlers that read the particulate sensor: pm1, pm25, pm10, all-variables
ParticulateModes == {7, 8, 9, 10}

C9_SingleHandlersContain ==
    [][ (dispatched' \in {7, 8, 9} /\ pms_timeout') =>
            /\ values' = values
            /\ log' = <<"WARNING">>
            /\ frames' = 0
            /\ exc' = "none"
            /\ pc' = "loop"
      ]_vars

\* n samples k
RECURSIVE Repeat(_, _)
Repeat(k, n) == IF n = 0 THEN <<>> ELSE <<k>> \o Repeat(k, n - 1)

\* C10 as claimed, checked under Spec: after n <= 5 runs of the temperature
\* handler from startup, all with the CPU temperature K, the handler has
\* returned, the window holds 5 - n zeros then n times K, and the average
\* computed is n * K / 5.
C10_AsClaimed ==
    LET n == Len(temp_runs)
    IN  (n \in 1..5 /\ temp_runs = Repeat(cpu_temp, n)) =>
            /\ exc = "none"
            /\ Len(cpu_temps) = 5
            /\ cpu_temps = Repeat(0, 5 - n) \o Repeat(cpu_temp, n)
            /\ avg_cpu_temp = Frac(n * cpu_temp, 5)

----------------------------------------------------------------------------
(* Normalization claim, checked under SpecNormalize *)

\* C11: every normalized value has a divisor >= 1 and lies in [0, 1]; a
\* largest sample maps to exactly 1; a buffer of equal samples maps to all
\* ones; adding the same constant to every sample changes no value.
C11_Normalization ==
    norm_pc = "done" =>
        /\ Len(colours) = Len(hist)
        /\ \A i \in 1..Len(hist) :
              /\ colours[i].den >= 1
              /\ 0 <= colours[i].num /\ colours[i].num <= colours[i].den
              /\ hist[i] = Max(hist) => colours[i].num = colours[i].den
        /\ (\A i, j \in 1..Len(hist) : hist[i] = hist[j]) =>
              \A i \in 1..Len(hist) : colours[i] = [num |-> 1, den |-> 1]
        /\ colours_shifted = colours

\* C11 witness: the buffer [10, 10, 10, 10, 10] normalized to [1, 1, 1, 1, 1],
\* also with 100 added to every sample.
C11_Witness ==
    /\ norm_pc = "done"
    /\ hist = <<10, 10, 10, 10, 10>>
    /\ shift = 100
    /\ colours = [i \in 1..5 |-> [num |-> 1, den |-> 1]]
    /\ colours_shifted = colours

----------------------------------------------------------------------------
(* Render claim, checked under SpecRender *)

\* C12 as claimed: a page rendered twice in a row with the same reading has
\* pushed two frames, and the two are identical.
C12_AsClaimed ==
    Len(rnd_excs) = 2 =>
        /\ rnd_excs = <<"none", "none">>
        /\ Len(rnd_frames) = 2
        /\ rnd_frames[1] = rnd_frames[2]

----------------------------------------------------------------------------
(* Loop lifetime and interrupt claims, checked under Spec *)

\* C13 as claimed: the main loop never ends with an unhandled error; it is
\* left only by an interrupt, and then the process exits with status 0.
C13_AsClaimed ==
    /\ pc \in {"loop", "exited"}
    /\ exc = "none"
    /\ pc = "exited" => exit_status = 0

----------------------------------------------------------------------------
(* All-variables handler claim, checked under SpecDispatch *)

\* the records and pushes of one run as C15 states them: six groups, each
\* followed by one push of the grid frame
ClaimedSequence ==
    <<variables[1], "push", variables[2], "push", variables[3], "push",
      variables[4], "push", variables[5], variables[6], variables[7], "push",
      variables[8], variables[9], variables[10], "push">>

\* C15 as claimed: a run of the all-variables handler without particulate
\* timeout records the ten variables in order and pushes the grid frame six
\* times, once after each of the six groups.
C15_AsClaimed ==
    [][ (dispatched' = 10 /\ ~pms_timeout') =>
            /\ events' = ClaimedSequence
            /\ frames' = 6
            /\ exc' = "none"
      ]_vars

----------------------------------------------------------------------------
(* History buffer claim, checked under Spec *)

\* C16 as claimed: from the end of setup on every one of the 10 variables has
\* a history buffer, all of one fixed length of at least one sample, and no
\* record operation ends in an error.
C16_AsClaimed ==
    /\ \A i \in 1..Len(variables) :
          /\ variables[i] \in DOMAIN values
          /\ Len(values[variables[i]]) >= 1
          /\ Len(values[variables[i]]) = Len(values[variables[1]])
    /\ exc # "KeyError"

----------------------------------------------------------------------------
(* Backlight bookkeeping claims, checked under SpecBacklight *)

\* C17: after a tick with lux > 0 the dark-onset timestamp is unset, in every
\* backlight state; while the screen is on in the dark the timestamp is the
\* first dark tick of the current dark episode, and Dimmed is held only when
\* more than dim_delay of unbroken darkness has passed.
C17_DebounceReset ==
    /\ lux > 0 => light_off_time = None
    /\ (lux <= 0 /\ screen_on) => light_off_time = dark_since
    /\ dimmed => (dark_since # None /\ now - dark_since > dim_delay)

\* Dimmed in a dark episode that began after a tick with light: darkness from
\* time 2 on can only follow a first tick with lux > 0
C17_Witness ==
    /\ BacklightState = "Dimmed" /\ lux = 0
    /\ dark_since = 2 /\ light_off_time = 2
    /\ now - dark_since > dim_delay

\* C20: dimmed implies screen_on; dimmed implies the dark-onset timestamp is
\* set; screen off implies the dark-onset timestamp is unset; the light-onset
\* timestamp is set only while the screen is off.
C20_FlagConsistency ==
    /\ dimmed => screen_on
    /\ dimmed => light_off_time # None
    /\ ~screen_on => light_off_time = None
    /\ light_on_time # None => ~screen_on

\* the screen off with light seen and the return to On pending
C20_Witness ==
    /\ ~screen_on /\ ~dimmed /\ lux > 0
    /\ light_on_time # None /\ light_off_time = None
    /\ now > light_on_time

----------------------------------------------------------------------------
(* Iteration ordering claim, checked under SpecLongLoop *)

----------------------------------------------------------------------------
(* Backlight liveness claim, checked under SpecBacklightLive *)

\* C19: with ticks that keep coming and take time, darkness on every tick
\* from some point on leads to Off, from On through Dimmed; light on every
\* tick from some point on leads to On; so no backlight state is terminal.
C19_BacklightLiveness ==
    /\ (phase = "dark") ~> (BacklightState = "Off")
    /\ (phase = "dark" /\ BacklightState = "On") ~> (BacklightState = "Dimmed")
    /\ (phase = "light") ~> (BacklightState = "On")

\* Off reached in lasting darkness that began at time 75, after light
C19_Witness ==
    /\ phase = "dark" /\ BacklightState = "Off"
    /\ dark_since = 75 /\ now - dark_since > dim_delay + off_delay

====
